---- MODULE Spec2Model ----
(***************************************************************************)
(* Cellular-automaton traffic model of Project2.py.                        *)
(*                                                                         *)
(* Two models live in the file: the single-lane model (cells 24-113 and    *)
(* 209-221 of the notebook) and the two-lane model (cells 345-457).  The   *)
(* later cell redefines initilize, distance, move, update and simulate, so *)
(* the single-lane versions carry the suffix 1 here.  The single-lane     *)
(* update itself is defined twice: the first definition (section 1.1) has  *)
(* no randomize step, the second one (section 1.2) has; sim tells which    *)
(* one a run calls.                                                        *)
(*                                                                         *)
(* A road is a function 0..num_cells-1 -> Cell (single lane) or a function *)
(* 0..1 -> lane (two lanes).  Probabilities are counted in quarters:       *)
(* p = 0, 2, 4 stand for 0, 0.5 and 1, and a draw of random.random() is    *)
(* 0 or 3 (0.0 or 0.75), so that a draw can be <= p or > p.                *)
(***************************************************************************)
EXTENDS Integers, Sequences, FiniteSets, TLC

VARIABLES
  num_cells,   \* road length of the run
  max_vels,    \* two-lane: max velocity of lane 0 and lane 1
  max_vel,     \* single-lane: the max_vel argument of simulate
  p,           \* dally probability of the run, in quarters
  impulse,     \* single-lane: the impulse argument of simulate
  cells,       \* the live road
  cells_copy,  \* two-lane update: the snapshot taken after acceleration
  num_time_steps, \* the num_time_steps argument of simulate
  pc,          \* position inside simulate/update
  time,        \* loop variable of simulate
  collision,   \* single-lane move: cells printed as "Collision at"
  occupancy_percents, \* the occupancy percent argument, one per lane
  sim          \* the notebook section the run belongs to: 1 runs the first
               \* single-lane update, 2 the redefined one, 3 the two-lane model

vars == <<num_cells, max_vels, max_vel, p, impulse, cells, cells_copy,
          num_time_steps, pc, time, collision, occupancy_percents, sim>>

\* what a run never changes
params == <<num_cells, max_vels, max_vel, p, impulse, num_time_steps,
            occupancy_percents, sim>>

(* ------------------------------ bounds -------------------------------- *)
\* two-lane runs
NumCells == 4
MaxVel0 == 2
MaxVel1 == 3
MaxCars == 2
NumTimeSteps == 1

PValues == {0, 2, 4}
RandomValues == {0, 3}

(* ------------------------------- cells -------------------------------- *)
Cell(state, velocity) == [state |-> state, velocity |-> velocity]

Indices(n) == 0 .. (n - 1)

Min(a, b) == IF a < b THEN a ELSE b
Max(a, b) == IF a > b THEN a ELSE b

\* number of cells of a lane with state = 1
NumCars(lane) == Cardinality({j \in DOMAIN lane : lane[j].state = 1})

NumCars2(cs) == NumCars(cs[0]) + NumCars(cs[1])

(* --------------------------- motion rules ----------------------------- *)
\* accelerate that only applies the maximum
accelerate_never(cell, mv) ==
  [cell EXCEPT !.velocity = Min(cell.velocity, mv)]

accelerate(cell, mv) == [cell EXCEPT !.velocity = Min(cell.velocity + 1, mv)]

\* decelerate that never slows a vehicle down
decelerate_never(cell, next_distance) == cell

\* decelerate with the gap taken one cell too long
decelerate_lag(cell, next_distance) ==
  IF cell.velocity > next_distance + 1
    THEN [cell EXCEPT !.velocity = next_distance + 1]
    ELSE cell

decelerate(cell, next_distance) ==
  IF cell.velocity > next_distance
    THEN [cell EXCEPT !.velocity = next_distance]
    ELSE cell

\* a dally whose size depends on the value drawn, not only on r <= p
randomize_by_draw(cell, prob, r) ==
  IF r <= prob
    THEN [cell EXCEPT !.velocity = Max(cell.velocity - 1 - r, 0)]
    ELSE cell

\* r is the value random.random() returned
randomize(cell, prob, r) ==
  IF r <= prob
    THEN [cell EXCEPT !.velocity = Max(cell.velocity - 1, 0)]
    ELSE cell

(* ------------------------- two-lane: distance ------------------------- *)
\* the scan returning i instead of i - 1
RECURSIVE scan_index(_, _, _, _, _)
scan_index(lane, index, n, direction, i) ==
  IF i >= n THEN -1
  ELSE IF lane[((direction * i) + index) % n].state = 1 THEN i
  ELSE scan_index(lane, index, n, direction, i + 1)

\* the for loop of distance: i runs over range(1, len(curr_cells)); the
\* result -1 stands for "loop ended without return"
RECURSIVE scan(_, _, _, _, _)
scan(lane, index, n, direction, i) ==
  IF i >= n THEN -1
  ELSE IF lane[((direction * i) + index) % n].state = 1 THEN i - 1
  ELSE scan(lane, index, n, direction, i + 1)

distance(cs, curr_cells, index, n, curr_lane, intended_lane, direction) ==
  LET found == IF curr_lane = intended_lane
                 THEN scan(curr_cells, index, n, direction, 1)
                 ELSE scan(cs[intended_lane], index, n, direction, 1)
  IN IF found = -1 THEN n ELSE found

(* --------------------- two-lane: can_change_lanes --------------------- *)
\* can_change_lanes without the test of the adjacent cell
can_change_lanes_adjacent(cs, cell, i, index, n, mvs) ==
  LET curr_lane == cs[i]
      other_lane == cs[(i + 1) % 2]
      dist_ahead == distance(cs, curr_lane, index, n, i, i, 1)
      dist_behind == distance(cs, curr_lane, index, n, i, i, -1)
      dist_ahead_other == distance(cs, curr_lane, index, n, i, (i + 1) % 2, 1)
      dist_behind_other == distance(cs, curr_lane, index, n, i, (i + 1) % 2, -1)
      cond1 == cell.velocity
                 < curr_lane[(index + dist_ahead + 1) % n].velocity - 1 + dist_ahead + 1
      cond2 == dist_ahead_other >= cell.velocity
      cond3 == curr_lane[(index - (dist_behind + 1)) % n].velocity - (dist_behind + 1)
                 < cell.velocity - 1
      cond4 == other_lane[(index - (dist_behind_other + 1)) % n].velocity
                 - (dist_behind_other + 1) < cell.velocity - 1
  IN IF cell.velocity <= mvs[(i + 1) % 2]
       THEN cond1 /\ cond2 /\ cond3 /\ cond4
       ELSE FALSE

can_change_lanes(cs, cell, i, index, n, mvs) ==
  LET curr_lane == cs[i]
      other_lane == cs[(i + 1) % 2]
      dist_ahead == distance(cs, curr_lane, index, n, i, i, 1)
      dist_behind == distance(cs, curr_lane, index, n, i, i, -1)
      dist_ahead_other == distance(cs, curr_lane, index, n, i, (i + 1) % 2, 1)
      dist_behind_other == distance(cs, curr_lane, index, n, i, (i + 1) % 2, -1)
      cond1 == cell.velocity
                 < curr_lane[(index + dist_ahead + 1) % n].velocity - 1 + dist_ahead + 1
      cond2 == dist_ahead_other >= cell.velocity
      cond3 == curr_lane[(index - (dist_behind + 1)) % n].velocity - (dist_behind + 1)
                 < cell.velocity - 1
      cond4 == other_lane[(index - (dist_behind_other + 1)) % n].velocity
                 - (dist_behind_other + 1) < cell.velocity - 1
  IN IF cell.velocity <= mvs[(i + 1) % 2] /\ other_lane[index].state = 0
       THEN cond1 /\ cond2 /\ cond3 /\ cond4
       ELSE FALSE

\* change_lanes that forgets to reset the velocity of the source cell
change_lanes_keep_velocity(cs, i, index) ==
  LET o == (i + 1) % 2
  IN [cs EXCEPT ![o][index] = Cell(1, cs[i][index].velocity),
                ![i][index] = Cell(0, cs[i][index].velocity)]

\* change_lanes that lets the vehicle arrive with velocity 0
change_lanes_stop(cs, i, index) ==
  LET o == (i + 1) % 2
  IN [cs EXCEPT ![o][index] = Cell(1, 0),
                ![i][index] = Cell(0, -1)]

\* change_lanes that puts the vehicle one cell ahead in the other lane
change_lanes_ahead(cs, i, index) ==
  LET o == (i + 1) % 2
      n == Cardinality(DOMAIN cs[i])
  IN [cs EXCEPT ![o][(index + 1) % n] = Cell(1, cs[i][index].velocity),
                ![i][index] = Cell(0, -1)]

change_lanes(cs, i, index) ==
  LET o == (i + 1) % 2
  IN [cs EXCEPT ![o][index] = Cell(1, cs[i][index].velocity),
                ![i][index] = Cell(0, -1)]

(* --------------------------- two-lane: move --------------------------- *)
\* the loop of move over cells_copy (lane_copy); lane is the live lane
RECURSIVE move_loop(_, _, _, _, _)
move_loop(lane, lane_copy, n, index, lane_change) ==
  IF index >= n THEN lane
  ELSE IF lane_copy[index].state = 1
    THEN LET cell == lane_copy[index]
             next_cell == (index + cell.velocity) % n
             cleared == IF lane_change THEN lane
                        ELSE [lane EXCEPT ![index] = Cell(0, -1)]
             moved == [cleared EXCEPT ![next_cell] = Cell(1, cell.velocity)]
             flag == lane_copy[next_cell].state = 1 /\ index # next_cell
         IN move_loop(moved, lane_copy, n, index + 1, flag)
    ELSE move_loop(lane, lane_copy, n, index + 1, lane_change)

\* a move that stops at the last index instead of wrapping around
move_clamped(lane, n) ==
  [j \in DOMAIN lane |->
     IF \E a \in DOMAIN lane : lane[a].state = 1 /\ Min(a + lane[a].velocity, n - 1) = j
       THEN Cell(1, lane[CHOOSE a \in DOMAIN lane :
                            lane[a].state = 1 /\ Min(a + lane[a].velocity, n - 1) = j].velocity)
       ELSE Cell(0, -1)]

move(lane, n) == move_loop(lane, lane, n, 0, FALSE)

(* -------------------------- two-lane: update -------------------------- *)
\* first loop of update: accelerate every vehicle with its lane's maximum
accelerate_all(cs, mvs) ==
  [i \in 0 .. 1 |->
     [j \in DOMAIN cs[i] |->
        IF cs[i][j].state = 1 THEN accelerate(cs[i][j], mvs[i]) ELSE cs[i][j]]]

\* the second loop of update with every decision taken on the live road
RECURSIVE change_lanes_loop_live(_, _, _, _, _)
change_lanes_loop_live(cs, snap, n, mvs, k) ==
  IF k >= 2 * n THEN cs
  ELSE LET i == k \div n
           index == k % n
           cell == cs[i][index]
           next_distance == distance(cs, cs[i], index, n, i, i, 1)
       IN IF cell.state = 1
             /\ cell.velocity > next_distance
             /\ can_change_lanes(cs, cs[i][index], i, index, n, mvs)
            THEN change_lanes_loop_live(change_lanes(cs, i, index), snap, n, mvs, k + 1)
            ELSE change_lanes_loop_live(cs, snap, n, mvs, k + 1)

\* the second loop of update without the test velocity > next_distance
RECURSIVE change_lanes_loop_untriggered(_, _, _, _, _)
change_lanes_loop_untriggered(cs, snap, n, mvs, k) ==
  IF k >= 2 * n THEN cs
  ELSE LET i == k \div n
           index == k % n
           cell == cs[i][index]
       IN IF cell.state = 1
             /\ can_change_lanes(snap, snap[i][index], i, index, n, mvs)
            THEN change_lanes_loop_untriggered(change_lanes(cs, i, index), snap, n,
                                               mvs, k + 1)
            ELSE change_lanes_loop_untriggered(cs, snap, n, mvs, k + 1)

\* second loop of update; k enumerates (lane, index) in visiting order;
\* cs is the live road, snap the snapshot
RECURSIVE change_lanes_loop(_, _, _, _, _)
change_lanes_loop(cs, snap, n, mvs, k) ==
  IF k >= 2 * n THEN cs
  ELSE LET i == k \div n
           index == k % n
           cell == cs[i][index]
           next_distance == distance(snap, snap[i], index, n, i, i, 1)
       IN IF cell.state = 1
             /\ cell.velocity > next_distance
             /\ can_change_lanes(snap, snap[i][index], i, index, n, mvs)
            THEN change_lanes_loop(change_lanes(cs, i, index), snap, n, mvs, k + 1)
            ELSE change_lanes_loop(cs, snap, n, mvs, k + 1)

\* the third loop of update with randomize applied before decelerate
decelerate_all_dally_first(cs, snap, n, prob, r) ==
  [i \in 0 .. 1 |->
     [j \in DOMAIN cs[i] |->
        IF cs[i][j].state = 1
          THEN decelerate(randomize(cs[i][j], prob, r[<<i, j>>]),
                          distance(snap, snap[i], j, n, i, i, 1))
          ELSE cs[i][j]]]

\* the third loop of update with the gaps measured on the live road
decelerate_all_live(cs, snap, n, prob, r) ==
  [i \in 0 .. 1 |->
     [j \in DOMAIN cs[i] |->
        IF cs[i][j].state = 1
          THEN randomize(
                 decelerate(cs[i][j], distance(cs, cs[i], j, n, i, i, 1)),
                 prob, r[<<i, j>>])
          ELSE cs[i][j]]]

\* third loop of update; r[<<i, index>>] is the draw of random.random()
\* made for the vehicle met at (i, index)
decelerate_all(cs, snap, n, prob, r) ==
  [i \in 0 .. 1 |->
     [j \in DOMAIN cs[i] |->
        IF cs[i][j].state = 1
          THEN randomize(
                 decelerate(cs[i][j], distance(snap, snap[i], j, n, i, i, 1)),
                 prob, r[<<i, j>>])
          ELSE cs[i][j]]]

move_all(cs, n) == [i \in 0 .. 1 |-> move(cs[i], n)]

Occupied2(cs) == {ij \in (0 .. 1) \X DOMAIN cs[0] : cs[ij[1]][ij[2]].state = 1}

(* ------------------------ two-lane: initilize ------------------------- *)
\* one lane of initilize: num_cars distinct indices (random.sample), each
\* with a velocity drawn by random.randint(0, max_vel)
initilize_lane(n, num_cars, mv) ==
  UNION {{[j \in Indices(n) |-> IF j \in idx THEN Cell(1, v[j]) ELSE Cell(0, -1)] :
            v \in [idx -> 0 .. mv]} :
         idx \in {s \in SUBSET Indices(n) : Cardinality(s) = num_cars}}

\* num_cars = (int)((occupancy_percent/100) * num_cells): int() truncates
\* towards zero
num_cars_of(occupancy_percent, n) ==
  IF occupancy_percent >= 0
    THEN (occupancy_percent * n) \div 100
    ELSE -((-occupancy_percent * n) \div 100)

\* the least occupancy percent that puts k vehicles on n cells
PercentFor(k, n) == (100 * k + n - 1) \div n

initilize(n, num_cars, mvs) ==
  {[i \in 0 .. 1 |-> IF i = 0 THEN l0 ELSE l1] :
     l0 \in initilize_lane(n, num_cars[0], mvs[0]),
     l1 \in initilize_lane(n, num_cars[1], mvs[1])}

(* ------------------------- two-lane: simulate ------------------------- *)
Init2 ==
  /\ num_cells = NumCells
  /\ num_time_steps = NumTimeSteps
  /\ max_vels = [i \in 0 .. 1 |-> IF i = 0 THEN MaxVel0 ELSE MaxVel1]
  /\ max_vel = 0
  /\ impulse = 0
  /\ p \in PValues
  /\ sim = 3
  /\ \E k0 \in 0 .. MaxCars : \E k1 \in 0 .. (MaxCars - k0) :
       occupancy_percents =
         [i \in 0 .. 1 |-> PercentFor(IF i = 0 THEN k0 ELSE k1, NumCells)]
  /\ cells \in initilize(NumCells,
                         [i \in 0 .. 1 |-> num_cars_of(occupancy_percents[i], NumCells)],
                         max_vels)
  /\ cells_copy = cells
  /\ pc = "accelerate"
  /\ time = 0
  /\ collision = {}

Accelerate ==
  /\ pc = "accelerate"
  /\ cells' = accelerate_all(cells, max_vels)
  /\ cells_copy' = cells'
  /\ pc' = "change_lanes"
  /\ UNCHANGED <<params, time, collision>>

ChangeLanes ==
  /\ pc = "change_lanes"
  /\ cells' = change_lanes_loop(cells, cells_copy, num_cells, max_vels, 0)
  /\ pc' = "decelerate"
  /\ UNCHANGED <<params, cells_copy, time, collision>>

Decelerate ==
  /\ pc = "decelerate"
  /\ \E r \in [Occupied2(cells) -> RandomValues] :
       cells' = decelerate_all(cells, cells_copy, num_cells, p, r)
  /\ pc' = "move"
  /\ UNCHANGED <<params, cells_copy, time, collision>>

Move ==
  /\ pc = "move"
  /\ cells' = move_all(cells, num_cells)
  /\ pc' = "record"
  /\ UNCHANGED <<params, cells_copy, time, collision>>

\* the two-lane simulate runs update for time in range(0, num_time_steps + 1)
Record ==
  /\ pc = "record"
  /\ time' = time + 1
  /\ pc' = IF time + 1 < num_time_steps + 1 THEN "accelerate" ELSE "done"
  /\ UNCHANGED <<params, cells, cells_copy, collision>>

Next2 == Accelerate \/ ChangeLanes \/ Decelerate \/ Move \/ Record

(***************************************************************************)
(* Two-lane runs on a longer road with equal speed limits that start with  *)
(* at most LeftCars vehicles in the left lane and an empty right lane      *)
(* (occupancy_percents = [x, 0]), with p = 0 or p = 0.5.                   *)
(***************************************************************************)
LeftCells == 6
LeftMaxVel == 5
LeftCars == 4
LeftTimeSteps == 0

InitLeft ==
  /\ num_cells = LeftCells
  /\ num_time_steps = LeftTimeSteps
  /\ max_vels = [i \in 0 .. 1 |-> LeftMaxVel]
  /\ max_vel = 0
  /\ impulse = 0
  /\ p \in {0, 2}
  /\ sim = 3
  /\ \E k0 \in 0 .. LeftCars :
       occupancy_percents =
         [i \in 0 .. 1 |-> IF i = 0 THEN PercentFor(k0, LeftCells) ELSE 0]
  /\ cells \in initilize(LeftCells,
                         [i \in 0 .. 1 |-> num_cars_of(occupancy_percents[i], LeftCells)],
                         max_vels)
  /\ cells_copy = cells
  /\ pc = "accelerate"
  /\ time = 0
  /\ collision = {}

SpecLeft == InitLeft /\ [][Next2]_vars

(***************************************************************************)
(* The single-lane model.                                                  *)
(***************************************************************************)
NumCells1 == 5
MaxCars1 == 2
NumTimeSteps1 == 2

\* the module-level max_vel = 5 (read by add_impulse) and the upper limit
\* of random.randint(0, 5) in the single-lane initilize
GlobalMaxVel == 5
InitMaxVel == 5

\* values of the max_vel and impulse arguments of simulate
MaxVelArgs == {3, 5}
ImpulseArgs == {0, 2}

\* distance falls off the end of its loop when no other cell is occupied
None == -1

\* the scan stopping at the last index instead of wrapping around
RECURSIVE scan1_nowrap(_, _, _, _)
scan1_nowrap(lane, index, n, i) ==
  IF i >= n THEN None
  ELSE IF i + index < n /\ lane[i + index].state = 1 THEN i - 1
  ELSE scan1_nowrap(lane, index, n, i + 1)

RECURSIVE scan1(_, _, _, _)
scan1(lane, index, n, i) ==
  IF i >= n THEN None
  ELSE IF lane[(i + index) % n].state = 1 THEN i - 1
  ELSE scan1(lane, index, n, i + 1)

distance1(lane, index, n) == scan1(lane, index, n, 1)

\* the loop of the single-lane update, in place on the live lane; stops with
\* error = TRUE where decelerate compares a velocity with None
RECURSIVE update1_loop(_, _, _, _, _, _)
update1_loop(lane, n, mv, prob, r, index) ==
  IF index >= n THEN [cells |-> lane, error |-> FALSE]
  ELSE IF lane[index].state = 1
    THEN LET next_distance == distance1(lane, index, n)
             accelerated == accelerate(lane[index], mv)
         IN IF next_distance = None
              THEN [cells |-> [lane EXCEPT ![index] = accelerated], error |-> TRUE]
              ELSE update1_loop(
                     [lane EXCEPT ![index] =
                        randomize(decelerate(accelerated, next_distance), prob, r[index])],
                     n, mv, prob, r, index + 1)
    ELSE update1_loop(lane, n, mv, prob, r, index + 1)

\* the loop of the first single-lane update, which has no randomize step
RECURSIVE update1_first_loop(_, _, _, _)
update1_first_loop(lane, n, mv, index) ==
  IF index >= n THEN [cells |-> lane, error |-> FALSE]
  ELSE IF lane[index].state = 1
    THEN LET next_distance == distance1(lane, index, n)
             accelerated == accelerate(lane[index], mv)
         IN IF next_distance = None
              THEN [cells |-> [lane EXCEPT ![index] = accelerated], error |-> TRUE]
              ELSE update1_first_loop(
                     [lane EXCEPT ![index] = decelerate(accelerated, next_distance)],
                     n, mv, index + 1)
    ELSE update1_first_loop(lane, n, mv, index + 1)

\* the loop of the single-lane move; printed collects the cells reported by
\* print("Collision at ...")
RECURSIVE move1_loop(_, _, _, _, _)
move1_loop(lane, lane_copy, n, index, printed) ==
  IF index >= n THEN [cells |-> lane, collision |-> printed]
  ELSE IF lane_copy[index].state = 1
    THEN LET cell == lane_copy[index]
             next_cell == (index + cell.velocity) % n
             hit == lane[next_cell].state = 1 /\ index # next_cell
             cleared == [lane EXCEPT ![index] = Cell(0, -1)]
             moved == [cleared EXCEPT ![next_cell] = Cell(1, cell.velocity)]
         IN move1_loop(moved, lane_copy, n, index + 1,
                       IF hit THEN printed \cup {next_cell} ELSE printed)
    ELSE move1_loop(lane, lane_copy, n, index + 1, printed)

\* the single-lane move iterating over the live lane instead of a copy: a
\* vehicle put on a higher index is met again
RECURSIVE move1_live_loop(_, _, _)
move1_live_loop(lane, n, index) ==
  IF index >= n THEN lane
  ELSE IF lane[index].state = 1
    THEN LET cell == lane[index]
             next_cell == (index + cell.velocity) % n
             cleared == [lane EXCEPT ![index] = Cell(0, -1)]
             moved == [cleared EXCEPT ![next_cell] = Cell(1, cell.velocity)]
         IN move1_live_loop(moved, n, index + 1)
    ELSE move1_live_loop(lane, n, index + 1)

move1_live(lane, n) == [cells |-> move1_live_loop(lane, n, 0), collision |-> {}]

\* move that clears the source cell after writing the destination, so that
\* a vehicle with velocity 0 clears itself
move1_clear_last(lane, n) ==
  LET res == move1_loop(lane, lane, n, 0, {})
  IN [res EXCEPT !.cells =
        [j \in DOMAIN lane |->
           IF lane[j].state = 1 /\ lane[j].velocity = 0
             THEN Cell(0, -1)
             ELSE res.cells[j]]]

move1(lane, n) == move1_loop(lane, lane, n, 0, {})

add_impulse(lane, imp) ==
  [j \in DOMAIN lane |->
     IF lane[j].state = 1
       THEN [lane[j] EXCEPT !.velocity = Min(lane[j].velocity + imp, GlobalMaxVel)]
       ELSE lane[j]]

Occupied1(lane) == {j \in DOMAIN lane : lane[j].state = 1}

initilize1(n, num_cars) == initilize_lane(n, num_cars, InitMaxVel)

Init1 ==
  /\ num_cells = NumCells1
  /\ num_time_steps = NumTimeSteps1
  /\ max_vels = <<>>
  /\ max_vel \in MaxVelArgs
  /\ impulse \in ImpulseArgs
  /\ sim \in {1, 2}
  /\ p \in (IF sim = 1 THEN {0} ELSE PValues)
  /\ \E k \in 0 .. MaxCars1 :
       occupancy_percents = [i \in {0} |-> PercentFor(k, NumCells1)]
  /\ cells \in initilize1(NumCells1, num_cars_of(occupancy_percents[0], NumCells1))
  /\ cells_copy = <<>>
  /\ pc = "update1"
  /\ time = 0
  /\ collision = {}

Update1 ==
  /\ pc = "update1"
  /\ \E r \in [Occupied1(cells) -> RandomValues] :
       LET res == IF sim = 1
                    THEN update1_first_loop(cells, num_cells, max_vel, 0)
                    ELSE update1_loop(cells, num_cells, max_vel, p, r, 0)
       IN /\ cells' = res.cells
          /\ pc' = IF res.error THEN "error1" ELSE "move1"
  /\ UNCHANGED <<params, cells_copy, time, collision>>

Move1 ==
  /\ pc = "move1"
  /\ LET res == move1(cells, num_cells)
     IN /\ cells' = res.cells
        /\ collision' = collision \cup res.collision
  /\ pc' = IF impulse > 0 /\ time = 0 THEN "add_impulse1" ELSE "record1"
  /\ UNCHANGED <<params, cells_copy, time>>

AddImpulse1 ==
  /\ pc = "add_impulse1"
  /\ cells' = add_impulse(cells, impulse)
  /\ pc' = "record1"
  /\ UNCHANGED <<params, cells_copy, time, collision>>

\* the single-lane simulate runs update for time in range(0, num_time_steps)
Record1 ==
  /\ pc = "record1"
  /\ time' = time + 1
  /\ pc' = IF time + 1 < num_time_steps THEN "update1" ELSE "done1"
  /\ UNCHANGED <<params, cells, cells_copy, collision>>

Next1 == Update1 \/ Move1 \/ AddImpulse1 \/ Record1

\* the runs of the single-lane simulate alone
SpecSingleLane == Init1 /\ [][Next1]_vars

(***************************************************************************)
(* The notebook runs both models: a run is a single-lane or a two-lane run. *)
(***************************************************************************)
Init == Init1 \/ Init2

Next == Next1 \/ Next2

Spec == Init /\ [][Next]_vars

SingleLane == pc \in {"update1", "move1", "add_impulse1", "record1", "done1", "error1"}

TwoLane == pc \in {"accelerate", "change_lanes", "decelerate", "move", "record", "done"}

(***************************************************************************)
(* The call of initilize at the start of simulate, for occupancy percents   *)
(* inside and outside [0, 100].  random.sample raises ValueError when the  *)
(* sample is larger than the population or negative.                       *)
(***************************************************************************)
ConfigCells == 3

OccupancyArgs == {-50, -20, 0, 34, 100, 120, 150}

InitConfig ==
  /\ num_cells = ConfigCells
  /\ num_time_steps = 1
  /\ impulse = 0
  /\ p = 0
  /\ cells = <<>>
  /\ cells_copy = <<>>
  /\ time = 0
  /\ collision = {}
  /\ \/ /\ pc = "initilize1"
        /\ sim = 2
        /\ max_vels = <<>>
        /\ max_vel \in MaxVelArgs
        /\ occupancy_percents \in [{0} -> OccupancyArgs]
     \/ /\ pc = "initilize"
        /\ sim = 3
        /\ max_vels = [i \in 0 .. 1 |-> IF i = 0 THEN MaxVel0 ELSE MaxVel1]
        /\ max_vel = 0
        /\ occupancy_percents \in [0 .. 1 -> OccupancyArgs]

\* cells = initilize(num_cells, occupancy_percent) of the single-lane simulate
Initilize1 ==
  /\ pc = "initilize1"
  /\ LET num_cars == num_cars_of(occupancy_percents[0], num_cells)
     IN IF num_cars \in 0 .. num_cells
          THEN /\ cells' \in initilize1(num_cells, num_cars)
               /\ pc' = "update1"
          ELSE /\ cells' = cells
               /\ pc' = "error_initilize1"
  /\ UNCHANGED <<params, cells_copy, time, collision>>

\* cells = initilize(num_cells, occupancy_percents, max_vels) of the two-lane
\* simulate
Initilize2 ==
  /\ pc = "initilize"
  /\ LET num_cars == [i \in 0 .. 1 |-> num_cars_of(occupancy_percents[i], num_cells)]
     IN IF \A i \in 0 .. 1 : num_cars[i] \in 0 .. num_cells
          THEN /\ cells' \in initilize(num_cells, num_cars, max_vels)
               /\ pc' = "accelerate"
          ELSE /\ cells' = cells
               /\ pc' = "error_initilize"
  /\ cells_copy' = cells'
  /\ UNCHANGED <<params, time, collision>>

NextConfig == Initilize1 \/ Initilize2

SpecConfig == InitConfig /\ [][NextConfig]_vars

(***************************************************************************)
(* Runs of the first single-lane model (section 1.1 of the notebook: p = 0 *)
(* and no impulse) on a road with at least two vehicles, at or below the   *)
(* critical density.  simulate is a loop that runs to its end, hence the   *)
(* weak fairness of its steps.                                             *)
(***************************************************************************)
JamCells == 6
JamCars == 2
JamTimeSteps == 5

JamMaxVelArgs == {1, 2}

InitJam ==
  /\ num_cells = JamCells
  /\ num_time_steps \in {1, JamTimeSteps}
  /\ max_vels = <<>>
  /\ max_vel \in JamMaxVelArgs
  /\ impulse = 0
  /\ sim = 1
  /\ p = 0
  /\ \E k \in 2 .. JamCars :
       /\ k * (max_vel + 1) <= JamCells
       /\ occupancy_percents = [i \in {0} |-> PercentFor(k, JamCells)]
  /\ cells \in initilize1(JamCells, num_cars_of(occupancy_percents[0], JamCells))
  /\ cells_copy = <<>>
  /\ pc = "update1"
  /\ time = 0
  /\ collision = {}

NextJam == Update1 \/ Move1 \/ Record1

SpecJam == InitJam /\ [][NextJam]_vars /\ WF_vars(NextJam)

(***************************************************************************)
(* Properties.                                                             *)
(***************************************************************************)
\* destination of the vehicle at cell j of a lane
Dest(lane, j, n) == (j + lane[j].velocity) % n

\* no two vehicles of the lane have the same destination
DistinctDestinations(lane, n) ==
  \A a \in Occupied1(lane) : \A b \in Occupied1(lane) :
     a # b => Dest(lane, a, n) # Dest(lane, b, n)

\* the lane in which every vehicle has been put on its destination at once
ParallelMove(lane, n) ==
  [j \in DOMAIN lane |->
     IF \E a \in Occupied1(lane) : Dest(lane, a, n) = j
       THEN Cell(1, lane[CHOOSE a \in Occupied1(lane) : Dest(lane, a, n) = j].velocity)
       ELSE Cell(0, -1)]

\* number of empty cells strictly between index and the first occupied cell
\* met from index in the direction; n when no other cell is occupied
Gap(lane, index, n, direction) ==
  LET offs == {d \in 1 .. (n - 1) : lane[(index + direction * d) % n].state = 1}
  IN IF offs = {} THEN n
     ELSE (CHOOSE d \in offs : \A e \in offs : d <= e) - 1

\* C1: two-lane conservation: no step of a two-lane run changes the number
\* of occupied cells of the road (both lanes together).
C1_Conservation2 == [][TwoLane => NumCars2(cells') = NumCars2(cells)]_vars

\* C2: two-lane move: when no two vehicles of a lane have the same
\* destination at the start of move, the lane after move holds every vehicle
\* at (i + v) mod num_cells with its velocity v, and nothing else.
C2_MoveIsParallel ==
  [][pc = "move" =>
       \A i \in 0 .. 1 :
          DistinctDestinations(cells[i], num_cells)
            => cells'[i] = ParallelMove(cells[i], num_cells)]_vars

\* C3: single-lane conservation: on a road with at least two vehicles no
\* step of a single-lane run (update, move, impulse, record) changes the
\* number of occupied cells.
C3_Conservation1 ==
  [][(SingleLane /\ NumCars(cells) >= 2) => NumCars(cells') = NumCars(cells)]_vars

\* a single-lane run with two vehicles or more has ended after an impulse,
\* with a vehicle that moves
C3_Witness ==
  /\ pc = "done1"
  /\ impulse > 0
  /\ p = 2
  /\ NumCars(cells) >= 2
  /\ \E j \in DOMAIN cells : cells[j].velocity >= 1

\* C4: two-lane no-collision: at the start of the move phase no two vehicles
\* of the same lane have the same destination cell.
C4_NoSameDestination ==
  pc = "move" => \A i \in 0 .. 1 : DistinctDestinations(cells[i], num_cells)

\* C5: single-lane no-collision: on a road with at least two vehicles, the
\* "Collision at" branch of move is never taken, and at the start of move no
\* vehicle's destination is the cell or the destination of another vehicle.
C5_NoCollision1 ==
  (SingleLane /\ NumCars(cells) >= 2) =>
     /\ collision = {}
     /\ pc = "move1" =>
          \A a \in Occupied1(cells) : \A b \in Occupied1(cells) :
             a # b => /\ Dest(cells, a, num_cells) # b
                      /\ Dest(cells, a, num_cells) # Dest(cells, b, num_cells)

\* the move after the impulse: two vehicles, one of them about to move
C5_Witness ==
  /\ pc = "move1"
  /\ time = 1
  /\ impulse > 0
  /\ NumCars(cells) >= 2
  /\ \E j \in DOMAIN cells : cells[j].velocity >= 1

\* C6: velocity bounds: at initialization and after every step every
\* occupied cell has 0 <= velocity <= the max velocity of its lane (max_vel
\* of the run in the single-lane model, max_vels[lane] in the two-lane one).
C6_VelocityBounds ==
  /\ pc \in {"update1", "record1", "done1"} =>
       \A j \in DOMAIN cells :
          cells[j].state = 1 => (0 <= cells[j].velocity /\ cells[j].velocity <= max_vel)
  /\ pc \in {"accelerate", "record", "done"} =>
       \A i \in 0 .. 1 : \A j \in DOMAIN cells[i] :
          cells[i][j].state = 1 =>
            (0 <= cells[i][j].velocity /\ cells[i][j].velocity <= max_vels[i])

\* a cell is empty with velocity -1 or occupied with a velocity >= 0
Consistent(cell) ==
  \/ cell.state = 0 /\ cell.velocity = -1
  \/ cell.state = 1 /\ cell.velocity >= 0

\* C7: cell consistency: in every state of either model, after every
\* operation, every cell is empty with velocity -1 or occupied with a
\* velocity >= 0.
C7_CellConsistency ==
  /\ SingleLane => \A j \in DOMAIN cells : Consistent(cells[j])
  /\ TwoLane => \A i \in 0 .. 1 : \A j \in DOMAIN cells[i] : Consistent(cells[i][j])

\* a lane change has been committed: the live road differs from the snapshot
C7_Witness ==
  /\ pc = "decelerate"
  /\ cells # cells_copy

\* the guards and the four conditions of the cautious lane change, from the
\* gaps and the velocities stored in the cells the gaps end at
LaneChangeAllowed(cs, i, index, n, mvs) ==
  LET o == 1 - i
      v == cs[i][index].velocity
      gap_front_same == Gap(cs[i], index, n, 1)
      gap_behind_same == Gap(cs[i], index, n, -1)
      gap_front_other == Gap(cs[o], index, n, 1)
      gap_behind_other == Gap(cs[o], index, n, -1)
      v_front_same == cs[i][(index + gap_front_same + 1) % n].velocity
      v_behind_same == cs[i][(index - gap_behind_same - 1) % n].velocity
      v_behind_other == cs[o][(index - gap_behind_other - 1) % n].velocity
  IN /\ v <= mvs[o]
     /\ cs[o][index].state = 0
     /\ v < v_front_same - 1 + gap_front_same + 1
     /\ gap_front_other >= v
     /\ v_behind_same - (gap_behind_same + 1) < v - 1
     /\ v_behind_other - (gap_behind_other + 1) < v - 1

\* C8: for every vehicle of every road the lane-change phase starts from,
\* can_change_lanes is TRUE exactly when both guards and the four conditions
\* hold, and FALSE when any one of them fails.
C8_CanChangeLanes ==
  pc = "change_lanes" =>
    \A ij \in Occupied2(cells) :
       can_change_lanes(cells, cells[ij[1]][ij[2]], ij[1], ij[2], num_cells, max_vels)
         <=> LaneChangeAllowed(cells, ij[1], ij[2], num_cells, max_vels)

\* the lane-change phase is about to run on a road where one vehicle may
\* change lanes and another one may not
C8_Witness ==
  /\ pc = "change_lanes"
  /\ \E ij \in Occupied2(cells) :
        can_change_lanes(cells, cells[ij[1]][ij[2]], ij[1], ij[2], num_cells, max_vels)
  /\ \E ij \in Occupied2(cells) :
        ~can_change_lanes(cells, cells[ij[1]][ij[2]], ij[1], ij[2], num_cells, max_vels)

\* C9: gap query: on every snapshot the gaps are measured on, for every
\* index, direction, current lane and target lane, whenever the target lane
\* holds a vehicle at another index, distance returns d such that the cell
\* d + 1 steps away in the direction is occupied and the d cells before it
\* are empty, wraparound included.
C9_Distance ==
  pc = "decelerate" =>
    \A i \in 0 .. 1 : \A t \in 0 .. 1 : \A index \in Indices(num_cells) :
       \A direction \in {1, -1} :
          LET d == distance(cells_copy, cells_copy[i], index, num_cells, i, t, direction)
          IN (\E j \in Indices(num_cells) : j # index /\ cells_copy[t][j].state = 1)
               => /\ 0 <= d /\ d <= num_cells - 2
                  /\ cells_copy[t][(index + direction * (d + 1)) % num_cells].state = 1
                  /\ \A e \in 1 .. d :
                        cells_copy[t][(index + direction * e) % num_cells].state = 0

\* the lane-change phase has measured, for a vehicle that will have to
\* decelerate, a forward gap that runs past the last index of the lane
C9_Witness ==
  /\ pc = "decelerate"
  /\ \E ij \in Occupied2(cells_copy) :
        LET i == ij[1]
            index == ij[2]
            d == distance(cells_copy, cells_copy[i], index, num_cells, i, i, 1)
        IN /\ cells_copy[i][index].velocity > d
           /\ d >= 1
           /\ index + d + 1 >= num_cells

\* C10: unobstructed gap: when the lane scanned for a vehicle holds no
\* vehicle at another index the gap query returns num_cells, in the
\* single-lane distance and in the two-lane distance alike, and no
\* single-lane update stops in an error.
C10_Unobstructed ==
  /\ SingleLane =>
       /\ pc # "error1"
       /\ \A index \in Occupied1(cells) :
            (\A j \in Indices(num_cells) : j # index => cells[j].state = 0)
              => distance1(cells, index, num_cells) = num_cells
  /\ TwoLane =>
       \A ij \in Occupied2(cells) : \A t \in 0 .. 1 : \A direction \in {1, -1} :
          (\A j \in Indices(num_cells) : j # ij[2] => cells[t][j].state = 0)
            => distance(cells, cells[ij[1]], ij[2], num_cells, ij[1], t, direction)
                 = num_cells

\* C11: fatal destination collision: a move phase that starts with the
\* destination of a vehicle taken by another vehicle (single lane: the
\* "Collision at" branch is entered; two lanes: two vehicles of a lane have
\* the same destination) does not go on to record the step, and leaves the
\* road as it found it.
C11_FatalCollision ==
  [][((pc = "move1" /\ move1(cells, num_cells).collision # {})
        \/ (pc = "move" /\ \E i \in 0 .. 1 : ~DistinctDestinations(cells[i], num_cells)))
       => (cells' = cells /\ pc' \notin {"record", "record1", "add_impulse1"})]_vars

\* C12: configuration errors: initilize returns a road only when every
\* occupancy percent lies in [0, 100] and no vehicle count exceeds num_cells;
\* otherwise it ends in an error and no run starts.
C12_ConfigErrors ==
  pc \in {"update1", "accelerate", "error_initilize1", "error_initilize"} =>
    (pc \in {"update1", "accelerate"}
       <=> \A i \in DOMAIN occupancy_percents :
              /\ occupancy_percents[i] >= 0
              /\ occupancy_percents[i] <= 100
              /\ num_cars_of(occupancy_percents[i], num_cells) <= num_cells)

\* the reference step on the road S after acceleration: who changes lane
RefChanges(S, i, index, n, mvs) ==
  /\ S[i][index].state = 1
  /\ S[i][index].velocity > Gap(S[i], index, n, 1)
  /\ can_change_lanes(S, S[i][index], i, index, n, mvs)

\* the road after the lane changes of the reference step
RefChanged(S, n, mvs) ==
  [l \in 0 .. 1 |->
     [index \in Indices(n) |->
        IF S[l][index].state = 1 /\ ~RefChanges(S, l, index, n, mvs)
          THEN S[l][index]
        ELSE IF RefChanges(S, 1 - l, index, n, mvs)
          THEN S[1 - l][index]
        ELSE Cell(0, -1)]]

\* the final velocities of the reference step: min(v', forward gap in S
\* measured in the lane the vehicle ends in)
RefDecelerated(S, n, mvs) ==
  LET C == RefChanged(S, n, mvs)
  IN [l \in 0 .. 1 |->
        [index \in Indices(n) |->
           IF C[l][index].state = 1
             THEN Cell(1, Min(C[l][index].velocity, Gap(S[l], index, n, 1)))
             ELSE C[l][index]]]

\* the road of the reference step: every vehicle on its final cell
RefRoad(S, n, mvs) ==
  LET D == RefDecelerated(S, n, mvs)
  IN [l \in 0 .. 1 |-> ParallelMove(D[l], n)]

\* C13: two-lane step with p = 0: after the lane-change phase the road is the
\* accelerated road S with exactly the vehicles moved over that the reference
\* step moves over; and when the vehicles then enter move with the final
\* velocities of the reference step, the road after update holds exactly the
\* vehicles of S, each on (index + final velocity) mod num_cells of its lane.
C13_ReferenceStep ==
  [][/\ pc = "decelerate" => cells = RefChanged(cells_copy, num_cells, max_vels)
     /\ (pc = "move" /\ p = 0
           /\ cells = RefDecelerated(cells_copy, num_cells, max_vels))
          => /\ cells' = RefRoad(cells_copy, num_cells, max_vels)
             /\ NumCars2(cells') = NumCars2(cells_copy)]_vars

\* the road of the scenario, after its update loop, and after its move
Road14 ==
  [j \in 0 .. 4 |-> IF j \in {0, 2} THEN Cell(1, 0) ELSE Cell(0, -1)]

Road14Updated ==
  [j \in 0 .. 4 |-> IF j \in {0, 2} THEN Cell(1, 1) ELSE Cell(0, -1)]

Road14Final ==
  [j \in 0 .. 4 |-> IF j \in {1, 3} THEN Cell(1, 1) ELSE Cell(0, -1)]

\* C14: single-lane scenario: on the 5-cell road with standing vehicles at
\* cells 0 and 2 and max velocity 5, the first update measures gaps 1 and 2
\* (the second through the wraparound), gives both vehicles velocity 1 and
\* moves them to cells 1 and 3.
C14_Scenario ==
  [][/\ (pc = "update1" /\ sim = 1 /\ max_vel = 5 /\ cells = Road14)
          => /\ distance1(cells, 0, num_cells) = 1
             /\ distance1(cells, 2, num_cells) = 2
             /\ cells' = Road14Updated
             /\ pc' = "move1"
     /\ (pc = "move1" /\ sim = 1 /\ max_vel = 5 /\ cells = Road14Updated)
          => cells' = Road14Final]_vars

\* the first step of a run has ended on the final road of the scenario
C14_Witness ==
  /\ pc = "record1" /\ time = 0 /\ sim = 1 /\ max_vel = 5 /\ impulse = 0
  /\ num_cells = 5
  /\ cells = Road14Final

\* the lane holds, at the destination of the vehicle that was at the last
\* index of lane before, a vehicle with that vehicle's velocity
LastVehicleArrived(lane, after, n) ==
  lane[n - 1].state = 1
    => /\ Dest(lane, n - 1, n) = (n - 1 + lane[n - 1].velocity) % n
       /\ after[Dest(lane, n - 1, n)] = Cell(1, lane[n - 1].velocity)

\* C15: wraparound move: in both models the move phase puts the vehicle of
\* the last index, with velocity v, on index (num_cells - 1 + v) mod
\* num_cells with velocity v, and every destination is an index of the road.
C15_WraparoundMove ==
  [][/\ pc = "move1" =>
          /\ LastVehicleArrived(cells, cells', num_cells)
          /\ \A j \in Occupied1(cells) : Dest(cells, j, num_cells) \in Indices(num_cells)
     /\ pc = "move" =>
          \A i \in 0 .. 1 :
             /\ LastVehicleArrived(cells[i], cells'[i], num_cells)
             /\ \A j \in Occupied1(cells[i]) :
                   Dest(cells[i], j, num_cells) \in Indices(num_cells)]_vars

\* a two-lane step has ended whose move phase took a vehicle with velocity
\* at least 1 from the last index around to the start of its lane
C15_Witness ==
  /\ pc = "record"
  /\ LET changed == change_lanes_loop(cells_copy, cells_copy, num_cells, max_vels, 0)
     IN \E r \in [Occupied2(changed) -> RandomValues] :
          LET before == decelerate_all(changed, cells_copy, num_cells, p, r)
          IN /\ cells = move_all(before, num_cells)
             /\ \E i \in 0 .. 1 :
                   /\ before[i][num_cells - 1].state = 1
                   /\ before[i][num_cells - 1].velocity >= 1

\* C16: run length: time counts the steps performed and the snapshots
\* recorded so far; a step is under way only while fewer than num_time_steps
\* steps are done, and the run stops after exactly num_time_steps steps, in
\* the single-lane and in the two-lane simulate.
C16_RunLength ==
  /\ pc \in {"update1", "move1", "add_impulse1", "record1",
              "accelerate", "change_lanes", "decelerate", "move", "record"}
       => time < num_time_steps
  /\ pc \in {"done1", "done"} => time = num_time_steps

\* C17: impulse: the boost follows the move of a step exactly when
\* impulse > 0 and the step is the first one (time = 0); it sets every
\* vehicle's velocity to min(v + impulse, max_vel of the run) and changes no
\* cell's occupancy.
C17_Impulse ==
  [][/\ pc = "move1" => (pc' = "add_impulse1" <=> (impulse > 0 /\ time = 0))
     /\ pc' = "add_impulse1" => pc = "move1"
     /\ pc = "add_impulse1" =>
          cells' = [j \in DOMAIN cells |->
                      IF cells[j].state = 1
                        THEN Cell(1, Min(cells[j].velocity + impulse, max_vel))
                        ELSE cells[j]]]_vars

\* the vehicles of the road of a run whose update calls randomize
Vehicles ==
  IF sim = 2 /\ SingleLane THEN {cells[j] : j \in Occupied1(cells)}
  ELSE IF sim = 3 /\ TwoLane THEN {cells[ij[1]][ij[2]] : ij \in Occupied2(cells)}
  ELSE {}

\* C18: dally: for every vehicle and every draw r of the random source,
\* randomize leaves the velocity unchanged or sets it to max(v - 1, 0); with
\* p = 0 it leaves it unchanged for every draw (r = 0 included); with p = 1
\* it always decrements.
C18_Dally ==
  \A cell \in Vehicles : \A r \in RandomValues :
     LET slower == Cell(1, Max(cell.velocity - 1, 0))
     IN /\ randomize(cell, p, r) \in {cell, slower}
        /\ p = 0 => randomize(cell, p, r) = cell
        /\ p = 4 => randomize(cell, p, r) = slower

\* the draws with the same dally outcomes as r, in a fixed choice
SameOutcomes(r) ==
  [v \in DOMAIN r |-> CHOOSE x \in RandomValues : (x <= p) <=> (r[v] <= p)]

BelowCriticalDensity ==
  /\ NumCars(cells) >= 2
  /\ NumCars(cells) * (max_vel + 1) <= num_cells

\* every vehicle has velocity max_vel
FreeFlow == \A j \in Occupied1(cells) : cells[j].velocity = max_vel

\* C20 as stated: from every placement at or below the critical density the
\* run of the first single-lane model reaches free flow and stays in it.
C20_JamResolution == <>[](BelowCriticalDensity => FreeFlow)

\* C20, amended: the same for the runs that have at least JamTimeSteps steps.
C20_JamResolutionLongRun ==
  <>[]((BelowCriticalDensity /\ num_time_steps >= JamTimeSteps) => FreeFlow)

\* a run of at least JamTimeSteps steps on a road exactly at the critical
\* density has ended, in free flow
C20_Witness ==
  /\ pc = "done1" /\ sim = 1
  /\ num_time_steps >= JamTimeSteps
  /\ NumCars(cells) >= 2
  /\ NumCars(cells) * (max_vel + 1) = num_cells
  /\ FreeFlow

\* the second loop of update visiting the cells in the given order, a
\* sequence of <<lane, index>>
RECURSIVE change_lanes_in_order(_, _, _, _, _, _)
change_lanes_in_order(cs, snap, n, mvs, order, k) ==
  IF k > Len(order) THEN cs
  ELSE LET i == order[k][1]
           index == order[k][2]
           cell == cs[i][index]
           next_distance == distance(snap, snap[i], index, n, i, i, 1)
       IN IF cell.state = 1
             /\ cell.velocity > next_distance
             /\ can_change_lanes(snap, snap[i][index], i, index, n, mvs)
            THEN change_lanes_in_order(change_lanes(cs, i, index), snap, n, mvs,
                                       order, k + 1)
            ELSE change_lanes_in_order(cs, snap, n, mvs, order, k + 1)

\* lane by lane, starting with lane first, indices ascending or descending
LaneMajor(n, first, descending) ==
  [k \in 1 .. 2 * n |->
     LET q == (k - 1) \div n
         s == (k - 1) % n
     IN <<IF first = 0 THEN q ELSE 1 - q, IF descending THEN n - 1 - s ELSE s>>]

\* index by index, both lanes of an index one after the other
IndexMajor(n, first) ==
  [k \in 1 .. 2 * n |->
     LET q == (k - 1) % 2
     IN <<IF first = 0 THEN q ELSE 1 - q, (k - 1) \div 2>>]

VisitOrders(n) ==
  {LaneMajor(n, first, descending) : first \in 0 .. 1, descending \in BOOLEAN}
    \cup {IndexMajor(n, first) : first \in 0 .. 1}

\* the vehicles of the snapshot that are in the other lane on the road after
Committed(snap, after) ==
  {ij \in Occupied2(snap) :
     /\ after[ij[1]][ij[2]].state = 0
     /\ after[1 - ij[1]][ij[2]] = snap[ij[1]][ij[2]]}

\* C21: lane-change decisions depend only on the snapshot: the vehicles moved
\* over by the lane-change phase are exactly the vehicles of the snapshot
\* with velocity > same-lane forward gap and can_change_lanes true on the
\* snapshot, and visiting the cells in another order gives the same road.
C21_SnapshotDecisions ==
  [][pc = "change_lanes" =>
       /\ Committed(cells_copy, cells')
            = {ij \in Occupied2(cells_copy) :
                 /\ cells_copy[ij[1]][ij[2]].velocity
                      > Gap(cells_copy[ij[1]], ij[2], num_cells, 1)
                 /\ can_change_lanes(cells_copy, cells_copy[ij[1]][ij[2]],
                                     ij[1], ij[2], num_cells, max_vels)}
       /\ \A order \in VisitOrders(num_cells) :
             change_lanes_in_order(cells, cells_copy, num_cells, max_vels, order, 1)
               = cells']_vars

\* a lane-change phase has ended in which a decision taken on the live road
\* would have differed from the one taken on the snapshot
C21_Witness ==
  /\ pc = "decelerate"
  /\ Committed(cells_copy, cells) # {}
  /\ change_lanes_loop_live(cells_copy, cells_copy, num_cells, max_vels, 0) # cells

\* the cells at which the second loop of update calls change_lanes, in
\* visiting order
RECURSIVE change_lanes_log(_, _, _, _, _)
change_lanes_log(cs, snap, n, mvs, k) ==
  IF k >= 2 * n THEN <<>>
  ELSE LET i == k \div n
           index == k % n
           cell == cs[i][index]
           next_distance == distance(snap, snap[i], index, n, i, i, 1)
       IN IF cell.state = 1
             /\ cell.velocity > next_distance
             /\ can_change_lanes(snap, snap[i][index], i, index, n, mvs)
            THEN <<<<i, index>>>>
                   \o change_lanes_log(change_lanes(cs, i, index), snap, n, mvs, k + 1)
            ELSE change_lanes_log(cs, snap, n, mvs, k + 1)

\* C22: at most one lane change per vehicle per step: the lane-change phase
\* calls change_lanes only for vehicles standing where the snapshot has
\* them and at most once per index, so a vehicle moved over is not moved
\* back; after the phase every vehicle of the snapshot is in its lane or in
\* the other lane at the same index, and there is no other vehicle.
C22_OneChangePerVehicle ==
  [][pc = "change_lanes" =>
       LET log == change_lanes_log(cells, cells_copy, num_cells, max_vels, 0)
       IN /\ \A a \in 1 .. Len(log) : log[a] \in Occupied2(cells_copy)
          /\ \A a \in 1 .. Len(log) : \A b \in 1 .. Len(log) :
                a # b => log[a][2] # log[b][2]
          /\ \A ij \in Occupied2(cells_copy) :
                \/ cells'[ij[1]][ij[2]] = cells_copy[ij[1]][ij[2]]
                \/ cells'[1 - ij[1]][ij[2]] = cells_copy[ij[1]][ij[2]]
          /\ NumCars2(cells') = NumCars2(cells_copy)]_vars

\* a lane-change phase has ended in which a vehicle was moved from lane 0 to
\* lane 1, was met again by the scan of lane 1, and the phase called
\* change_lanes that one time only
C22_Witness ==
  /\ pc = "decelerate"
  /\ \E index \in Indices(num_cells) :
        /\ cells_copy[0][index].state = 1
        /\ cells[0][index].state = 0
        /\ cells[1][index] = cells_copy[0][index]
        /\ change_lanes_log(cells_copy, cells_copy, num_cells, max_vels, 0)
             = <<<<0, index>>>>

\* the vehicle of the snapshot at ij would have to decelerate: its velocity
\* is above its forward gap in its own lane
MustDecelerate(snap, ij, n) ==
  snap[ij[1]][ij[2]].velocity > Gap(snap[ij[1]], ij[2], n, 1)

\* C23: lane-change trigger: every vehicle the lane-change phase moves over
\* has, in the snapshot, a velocity strictly above its forward gap in its own
\* lane; a vehicle that would not have to decelerate stays where it is.
C23_Trigger ==
  [][pc = "change_lanes" =>
       \A ij \in Occupied2(cells_copy) :
          /\ ij \in Committed(cells_copy, cells')
               => MustDecelerate(cells_copy, ij, num_cells)
          /\ ~MustDecelerate(cells_copy, ij, num_cells)
               => cells'[ij[1]][ij[2]] = cells_copy[ij[1]][ij[2]]]_vars

\* a lane-change phase has ended in which a vehicle that had to decelerate
\* was moved over and a vehicle that can_change_lanes allowed to change, but
\* that had no need to decelerate, stayed in its lane
C23_Witness ==
  /\ pc = "decelerate"
  /\ \E ij \in Committed(cells_copy, cells) :
        MustDecelerate(cells_copy, ij, num_cells)
  /\ \E ij \in Occupied2(cells_copy) :
        /\ ~MustDecelerate(cells_copy, ij, num_cells)
        /\ can_change_lanes(cells_copy, cells_copy[ij[1]][ij[2]], ij[1], ij[2],
                            num_cells, max_vels)
        /\ cells[ij[1]][ij[2]] = cells_copy[ij[1]][ij[2]]

\* C24: a lane change keeps the speed: for every vehicle moved over by the
\* lane-change phase of a step, the forward gap the decelerate phase measures
\* for it is at least its post-acceleration velocity v, so decelerate leaves
\* v, and the phase ends with v or, after a dally, max(v - 1, 0).
C24_ChangeKeepsSpeed ==
  [][pc = "decelerate" =>
       \A ij \in Committed(cells_copy, cells) :
          LET o == 1 - ij[1]
              v == cells_copy[ij[1]][ij[2]].velocity
          IN /\ Gap(cells_copy[o], ij[2], num_cells, 1) >= v
             /\ decelerate(cells[o][ij[2]],
                           distance(cells_copy, cells_copy[o], ij[2], num_cells, o, o, 1))
                  = Cell(1, v)
             /\ cells'[o][ij[2]] \in {Cell(1, v), Cell(1, Max(v - 1, 0))}
             /\ p = 4 => cells'[o][ij[2]] = Cell(1, Max(v - 1, 0))]_vars

\* a decelerate phase has ended in which a vehicle that was above its gap in
\* its own lane and changed lanes kept its velocity, while a vehicle that
\* stayed in its lane was slowed down to its gap
C24_Witness ==
  /\ pc = "move" /\ p = 0
  /\ \E ij \in Occupied2(cells_copy) :
        /\ MustDecelerate(cells_copy, ij, num_cells)
        /\ cells[ij[1]][ij[2]].state = 0
        /\ cells[1 - ij[1]][ij[2]] = cells_copy[ij[1]][ij[2]]
  /\ \E ij \in Occupied2(cells_copy) :
        /\ MustDecelerate(cells_copy, ij, num_cells)
        /\ cells[ij[1]][ij[2]]
             = Cell(1, Gap(cells_copy[ij[1]], ij[2], num_cells, 1))

\* the velocities allowed after decelerate and dally for a vehicle with
\* velocity a after acceleration and forward gap g
AfterDecelerateAndDally(a, g, prob) ==
  LET d == Min(a, g)
  IN IF prob = 4 THEN {Max(d - 1, 0)} ELSE {d, Max(d - 1, 0)}

\* C25: deceleration then dally: the decelerate and dally phase of a step
\* leaves every vehicle in its cell with a velocity that is at most its
\* forward gap in the lane it is now in (two lanes: measured on the
\* snapshot), at most its velocity after acceleration and at least 0; the
\* velocity is the decelerated one or, after a dally, one less (never below
\* 0), and in the first single-lane update the decelerated one.
C25_DecelerateThenDally ==
  [][/\ (pc = "update1" /\ pc' = "move1") =>
          \A j \in Occupied1(cells) :
             LET a == accelerate(cells[j], max_vel).velocity
                 g == Gap(cells, j, num_cells, 1)
                 v == cells'[j].velocity
             IN /\ cells'[j].state = 1
                /\ v <= g /\ v <= a /\ v >= 0
                /\ v \in AfterDecelerateAndDally(a, g, p)
                /\ sim = 1 => v = Min(a, g)
     /\ pc = "decelerate" =>
          \A ij \in Occupied2(cells) :
             LET a == cells[ij[1]][ij[2]].velocity
                 g == Gap(cells_copy[ij[1]], ij[2], num_cells, 1)
                 v == cells'[ij[1]][ij[2]].velocity
             IN /\ cells'[ij[1]][ij[2]].state = 1
                /\ v <= g /\ v <= a /\ v >= 0
                /\ v \in AfterDecelerateAndDally(a, g, p)]_vars

\* a two-lane decelerate phase with p = 1 has ended in which a vehicle above
\* its gap g >= 1 was slowed down to g and then dallied to g - 1
C25_Witness ==
  /\ pc = "move" /\ p = 4
  /\ LET before == change_lanes_loop(cells_copy, cells_copy, num_cells, max_vels, 0)
     IN \E ij \in Occupied2(before) :
          LET g == Gap(cells_copy[ij[1]], ij[2], num_cells, 1)
          IN /\ before[ij[1]][ij[2]].velocity > g
             /\ g >= 1
             /\ cells[ij[1]][ij[2]] = Cell(1, g - 1)

\* the parallel single-lane update, first part: the velocity of every
\* vehicle after accelerate and decelerate, computed from the lane as it is
\* at the start of the step (-1 for an empty cell)
ParallelVelocities(lane, n, mv) ==
  [j \in DOMAIN lane |->
     IF lane[j].state = 1
       THEN Min(Min(lane[j].velocity + 1, mv), Gap(lane, j, n, 1))
       ELSE -1]

\* second part: the dallies applied to the velocities d; first tells the
\* update without dally, r[j] is the draw of the vehicle at j
ParallelUpdate1(lane, d, prob, r, first) ==
  [j \in DOMAIN lane |->
     IF lane[j].state = 1
       THEN Cell(1, IF ~first /\ r[j] <= prob THEN Max(d[j] - 1, 0) ELSE d[j])
       ELSE lane[j]]

\* one assignment of draws for every dally outcome the vehicles of the
\* single-lane road can have (the first update has no dally)
DallyOutcomes1 ==
  IF sim = 1 THEN {[j \in Occupied1(cells) |-> 0]}
  ELSE {r \in [Occupied1(cells) -> RandomValues] : SameOutcomes(r) = r}

\* C26: single-lane parallel-update equivalence: on every road with at least
\* two vehicles a step starts from, and for every dally outcome, the in-place
\* update loop ends without an error with the velocities of the parallel
\* update computed from the road at the start of the step, and the move
\* after it gives the road of one simultaneous move.
C26_ParallelEquivalence ==
  (pc = "update1" /\ NumCars(cells) >= 2) =>
     LET d == ParallelVelocities(cells, num_cells, max_vel)
     IN \A r \in DallyOutcomes1 :
          LET seq == IF sim = 1
                       THEN update1_first_loop(cells, num_cells, max_vel, 0)
                       ELSE update1_loop(cells, num_cells, max_vel, p, r, 0)
              par == ParallelUpdate1(cells, d, p, r, sim = 1)
          IN /\ seq = [cells |-> par, error |-> FALSE]
             /\ move1(par, num_cells).cells = ParallelMove(par, num_cells)

\* a move of the redefined single-lane model is about to run in which two
\* vehicles advance and iterating over the live lane would give another road
C26_Witness ==
  /\ pc = "move1" /\ sim = 2 /\ p = 2
  /\ Cardinality({j \in Occupied1(cells) : cells[j].velocity >= 1}) >= 2
  /\ move1_live(cells, num_cells).cells # move1(cells, num_cells).cells

\* the cell of the nearest vehicle ahead of cell j of the lane
Leader(lane, j, n) == (j + Gap(lane, j, n, 1) + 1) % n

\* C27: no overtaking in one lane: on a road with at least two vehicles the
\* update leaves every vehicle in its cell, and the move puts every vehicle
\* on a cell strictly behind the cell its nearest vehicle ahead had at the
\* start of the step; on the road after the move the nearest vehicle ahead
\* of each vehicle is the one that was ahead of it before.
C27_NoOvertaking ==
  [][/\ (pc = "update1" /\ NumCars(cells) >= 2) =>
          Occupied1(cells') = Occupied1(cells)
     /\ (pc = "add_impulse1" /\ NumCars(cells) >= 2) =>
          Occupied1(cells') = Occupied1(cells)
     /\ (pc = "move1" /\ NumCars(cells) >= 2) =>
          \A j \in Occupied1(cells) :
             LET v == cells[j].velocity
                 dest == Dest(cells, j, num_cells)
                 lead == Leader(cells, j, num_cells)
             IN /\ 0 <= v /\ v <= Gap(cells, j, num_cells, 1)
                /\ cells'[dest] = Cell(1, v)
                /\ Leader(cells', dest, num_cells) = Dest(cells, lead, num_cells)]_vars

\* the move of a later step is about to run in which a vehicle goes right up
\* to the cell its leader starts from, past the last index of the road,
\* while its leader advances
C27_Witness ==
  /\ pc = "move1" /\ time >= 1
  /\ NumCars(cells) >= 2
  /\ \E j \in Occupied1(cells) :
        /\ cells[j].velocity >= 1
        /\ cells[j].velocity = Gap(cells, j, num_cells, 1)
        /\ j + cells[j].velocity >= num_cells
        /\ cells[Leader(cells, j, num_cells)].velocity >= 1

\* the live road at the a-th call of change_lanes of a lane-change phase
\* that starts on cs and makes the calls of log
RECURSIVE RoadAtCall(_, _, _)
RoadAtCall(cs, log, a) ==
  IF a = 1 THEN cs
  ELSE change_lanes(RoadAtCall(cs, log, a - 1), log[a - 1][1], log[a - 1][2])

\* after is before with the vehicle of cell index of lane i moved to cell
\* index of the other lane, and nothing else changed
LaneChangeFrame(before, after, i, index) ==
  /\ after[1 - i][index] = before[i][index]
  /\ after[i][index] = Cell(0, -1)
  /\ \A l \in 0 .. 1 : \A j \in DOMAIN before[l] :
        j # index => after[l][j] = before[l][j]
  /\ DOMAIN after = DOMAIN before
  /\ \A l \in 0 .. 1 : DOMAIN after[l] = DOMAIN before[l]

\* C28: frame of a lane change: change_lanes(cells, i, index) puts the
\* vehicle of cell index of lane i, with its velocity, on cell index of the
\* other lane, clears the source cell (state 0, velocity -1) and leaves every
\* other cell of both lanes as it was; every call update makes of it finds
\* the destination cell empty on the live road, so the number of vehicles
\* is kept, and the road after the phase is the road after the last call.
C28_ChangeLanesFrame ==
  [][pc = "change_lanes" =>
       LET log == change_lanes_log(cells, cells_copy, num_cells, max_vels, 0)
       IN /\ \A ij \in Occupied2(cells) :
                LaneChangeFrame(cells, change_lanes(cells, ij[1], ij[2]), ij[1], ij[2])
          /\ \A a \in 1 .. Len(log) :
                LET before == RoadAtCall(cells, log, a)
                    after == change_lanes(before, log[a][1], log[a][2])
                IN /\ before[log[a][1]][log[a][2]].state = 1
                   /\ before[1 - log[a][1]][log[a][2]].state = 0
                   /\ LaneChangeFrame(before, after, log[a][1], log[a][2])
                   /\ NumCars2(after) = NumCars2(before)
          /\ cells' = RoadAtCall(cells, log, Len(log) + 1)]_vars

\* a lane-change phase has ended that called change_lanes twice, the second
\* time on a live road that was no longer the snapshot
C28_Witness ==
  /\ pc = "decelerate"
  /\ Len(change_lanes_log(cells_copy, cells_copy, num_cells, max_vels, 0)) = 2
  /\ Cardinality(Committed(cells_copy, cells)) = 2

====
